---- MODULE Spec2Model ----
(***************************************************************************)
(* WeekendWish day planner: planner.py's scoring and greedy itinerary      *)
(* builder, as a state machine.                                            *)
(*                                                                         *)
(* Units.  Coordinates are whole kilometres on a flat chart, north of the  *)
(* equator (lat) and east of the prime meridian (lon); geodesic distance   *)
(* is the chart distance rounded down to a whole kilometre.  Times are     *)
(* minutes, money is INR, popularity is in hundredths (0.9 is 90).  All    *)
(* arithmetic is exact integer arithmetic; floating-point rounding is not  *)
(* modelled.                                                               *)
(***************************************************************************)
EXTENDS Integers, Sequences, FiniteSets, TLC

\* Python's None (api.py returns None, None when geocoding fails; main.py
\* stores p.get("price"), which is None for a place without a price).
None == -1

\* ---------------------------------------------------------------------
\* Bounds of the model
\* ---------------------------------------------------------------------
\* The longest list of selected places tried.
MaxSelected == 2
\* The most calls made in a row with the same arguments.
MaxCalls == 2
\* The longest list of category labels tried for the duration estimate.
MaxLabels == 2

\* ---------------------------------------------------------------------
\* Small helpers
\* ---------------------------------------------------------------------
Max(a, b) == IF a >= b THEN a ELSE b

\* dict.get(k, d)
Get(p, k, d) == IF k \in DOMAIN p THEN p[k] ELSE d

RECURSIVE SqrtSearch(_, _, _)
SqrtSearch(n, lo, hi) ==
    IF lo >= hi THEN lo
    ELSE LET mid == (lo + hi + 1) \div 2
         IN IF mid * mid <= n THEN SqrtSearch(n, mid, hi)
                              ELSE SqrtSearch(n, lo, mid - 1)

\* floor of the square root
ISqrt(n) == SqrtSearch(n, 0, 16384)

SeqsUpTo(S, n) == UNION {[1..k -> S] : k \in 0..n}

\* ---------------------------------------------------------------------
\* Text: a string is a sequence of one-character strings
\* ---------------------------------------------------------------------
UpperChars == <<"A", "B", "C", "D", "E", "F", "G", "H", "I", "J", "K", "L", "M", "N", "O", "P", "Q", "R", "S", "T", "U", "V", "W", "X", "Y", "Z">>
LowerChars == <<"a", "b", "c", "d", "e", "f", "g", "h", "i", "j", "k", "l", "m", "n", "o", "p", "q", "r", "s", "t", "u", "v", "w", "x", "y", "z">>

\* str.lower(), one character
LowerChar(ch) ==
    IF \E i \in 1..Len(UpperChars) : UpperChars[i] = ch
    THEN LowerChars[CHOOSE i \in 1..Len(UpperChars) : UpperChars[i] = ch]
    ELSE ch

\* str.lower()
Lower(s) == [i \in 1..Len(s) |-> LowerChar(s[i])]

\* Python's "kw in s" on strings: kw occurs in s as a contiguous run
Contains(s, kw) ==
    \E off \in 0..(Len(s) - Len(kw)) :
        \A j \in 1..Len(kw) : s[off + j] = kw[j]

\* The keywords estimate_visit_duration looks for
Kw_park == <<"p", "a", "r", "k">>
Kw_garden == <<"g", "a", "r", "d", "e", "n">>
Kw_cafe == <<"c", "a", "f", "e">>
Kw_restaurant == <<"r", "e", "s", "t", "a", "u", "r", "a", "n", "t">>
Kw_mall == <<"m", "a", "l", "l">>
Kw_museum == <<"m", "u", "s", "e", "u", "m">>
Kw_adventure == <<"a", "d", "v", "e", "n", "t", "u", "r", "e">>
Kw_amusement == <<"a", "m", "u", "s", "e", "m", "e", "n", "t">>

\* Category labels as the places API gives them
LabelPark == <<"P", "a", "r", "k">>
LabelCafe == <<"C", "a", "f", "e">>
LabelRestaurant == <<"R", "e", "s", "t", "a", "u", "r", "a", "n", "t">>
LabelShoppingMall == <<"S", "h", "o", "p", "p", "i", "n", "g", " ", "M", "a", "l", "l">>
LabelMuseum == <<"M", "u", "s", "e", "u", "m">>
LabelAmusementArcade == <<"A", "M", "U", "S", "E", "M", "E", "N", "T", " ", "A", "r", "c", "a", "d", "e">>
LabelRoseGarden == <<"R", "o", "s", "e", " ", "G", "a", "r", "d", "e", "n">>
LabelAdventureSports == <<"A", "d", "v", "e", "n", "t", "u", "r", "e", " ", "S", "p", "o", "r", "t", "s">>
LabelTemple == <<"T", "e", "m", "p", "l", "e">>
Labels == {LabelPark, LabelCafe, LabelRestaurant, LabelShoppingMall, LabelMuseum, LabelAmusementArcade, LabelRoseGarden, LabelAdventureSports, LabelTemple}

VARIABLES
    selected_places,     \* argument: the list of place dicts
    start_lat,           \* argument
    start_lon,           \* argument
    total_budget,        \* argument
    people,              \* argument
    geodesic_none,       \* what the installed geopy does with a None coordinate
    pc,                  \* where the call is
    enriched,            \* local: the enriched candidates
    idx,                 \* position of the running for loop (1-based)
    itinerary,           \* local
    remaining_budget,    \* local
    current_lat,         \* local
    current_lon,         \* local
    total_minutes_used,  \* local
    result,              \* the returned list, once pc = "returned"
    exception,           \* the exception that left the call, once pc = "raised"
    address,             \* main.py: the Starting Address text input
    last_search_results, \* main.py: st.session_state.last_search_results
    returned_before      \* what earlier calls with these arguments returned

vars == <<selected_places, start_lat, start_lon, total_budget, people,
          geodesic_none, pc, enriched, idx, itinerary, remaining_budget,
          current_lat, current_lon, total_minutes_used, result, exception,
          address, last_search_results, returned_before>>

\* what lives outside a call of the builder
outside == <<address, last_search_results, returned_before>>

args == <<selected_places, start_lat, start_lon, total_budget, people,
          geodesic_none>>

\* ---------------------------------------------------------------------
\* Distance + travel time
\* ---------------------------------------------------------------------
\* geopy is not part of the repository and its version is not pinned.  Given
\* a None coordinate, geopy.Point either reads it as 0.0 ("zero") or rejects
\* it ("raise"); geodesic_none is the behaviour of the installed build.
GeodesicRaises(lat1, lon1, lat2, lon2) ==
    /\ geodesic_none = "raise"
    /\ None \in {lat1, lon1, lat2, lon2}

Coord(c) == IF c = None THEN 0 ELSE c

distance_km(lat1, lon1, lat2, lon2) ==
    LET dlat == Coord(lat1) - Coord(lat2)
        dlon == Coord(lon1) - Coord(lon2)
    IN ISqrt(dlat * dlat + dlon * dlon)

\* default speed=20
Speed == 20

travel_time_min(lat1, lon1, lat2, lon2) ==
    LET dist == distance_km(lat1, lon1, lat2, lon2)
    IN (dist * 60) \div Speed

\* ---------------------------------------------------------------------
\* Scoring
\* ---------------------------------------------------------------------
\* A per-person budget is the fraction num/den with den >= 1.
budget_per_person == [num |-> total_budget, den |-> Max(1, people)]

DefaultPopularity == 60
DefaultPriceTier == 2
DefaultCost == 400
CostTable == (1 :> 200) @@ (2 :> 400) @@ (3 :> 800) @@ (4 :> 1200)

\* a lookup whose missing-key default is the cheapest tier
approx_cost_DefaultTier1(place) ==
    LET price_tier == Get(place, "price_tier", 1)
    IN IF price_tier \in DOMAIN CostTable THEN CostTable[price_tier]
                                          ELSE DefaultCost

approx_cost(place) ==
    LET price_tier == Get(place, "price_tier", DefaultPriceTier)
    IN IF price_tier \in DOMAIN CostTable THEN CostTable[price_tier]
                                          ELSE DefaultCost

\* max(1, budget_per_person) is CostDen(bpp) / bpp.den, so the cost factor
\* max(0, (bpp - approx_cost) / max(1, bpp)) is cost_factor / CostDen.
CostDen(bpp) == Max(bpp.den, bpp.num)

\* the cost factor without its floor
cost_factor_NoFloor(bpp, cost) == bpp.num - cost * bpp.den

cost_factor(bpp, cost) == Max(0, bpp.num - cost * bpp.den)

\* 0.5 * popularity + 0.3 * cost_factor - 0.2 * (travel_min / 30), times
\* ScoreScale(bpp), which is positive and the same for every place of a call.
ScoreScale(bpp) == 600 * CostDen(bpp)

compute_score(place, bpp, travel_min) ==
    LET popularity == Get(place, "popularity", DefaultPopularity)
        cost == approx_cost(place)
    IN [score |-> 3 * CostDen(bpp) * popularity
                  + 180 * cost_factor(bpp, cost)
                  - 4 * CostDen(bpp) * travel_min,
        approx_cost |-> cost]

\* ---------------------------------------------------------------------
\* Visit duration estimate (by category)
\* ---------------------------------------------------------------------
AnyHas(cats, kws) ==
    \E i \in 1..Len(cats) : \E kw \in kws : Contains(cats[i], kw)

\* the duration of one label, 0 when no keyword occurs in it
LabelDuration(c) ==
    IF Contains(c, Kw_park) \/ Contains(c, Kw_garden) THEN 60
    ELSE IF Contains(c, Kw_cafe) THEN 45
    ELSE IF Contains(c, Kw_restaurant) THEN 75
    ELSE IF Contains(c, Kw_mall) THEN 120
    ELSE IF Contains(c, Kw_museum) THEN 60
    ELSE IF Contains(c, Kw_adventure) \/ Contains(c, Kw_amusement) THEN 90
    ELSE 0

\* an estimate that goes label by label: the first label with a keyword wins
estimate_visit_duration_FirstLabel(place) ==
    LET raw == Get(place, "categories", <<>>)
        cats == [i \in 1..Len(raw) |-> Lower(raw[i])]
        hits == {i \in 1..Len(cats) : LabelDuration(cats[i]) # 0}
    IN IF hits = {} THEN 45
       ELSE LabelDuration(cats[CHOOSE i \in hits : \A j \in hits : i <= j])

estimate_visit_duration(place) ==
    LET raw == Get(place, "categories", <<>>)
        cats == [i \in 1..Len(raw) |-> Lower(raw[i])]
    IN IF AnyHas(cats, {Kw_park, Kw_garden}) THEN 60
       ELSE IF AnyHas(cats, {Kw_cafe}) THEN 45
       ELSE IF AnyHas(cats, {Kw_restaurant}) THEN 75
       ELSE IF AnyHas(cats, {Kw_mall}) THEN 120
       ELSE IF AnyHas(cats, {Kw_museum}) THEN 60
       ELSE IF AnyHas(cats, {Kw_adventure, Kw_amusement}) THEN 90
       ELSE 45

\* ---------------------------------------------------------------------
\* generate_itinerary_from_selected
\* ---------------------------------------------------------------------
MAX_MINUTES == 8 * 60

\* {**p, "travel_from_start": ..., "score": ..., "approx_cost_pp": ...}
Enrich(p) ==
    LET travel_min == travel_time_min(start_lat, start_lon, p["lat"], p["lon"])
        sc == compute_score(p, budget_per_person, travel_min)
    IN [travel_from_start |-> travel_min,
        score |-> sc.score,
        approx_cost_pp |-> sc.approx_cost] @@ p

\* a sort that puts the later of two equal scores first
InsertByScore_TiesFirst(s, x) ==
    LET k == Cardinality({i \in 1..Len(s) : s[i]["score"] > x["score"]})
    IN SubSeq(s, 1, k) \o <<x>> \o SubSeq(s, k + 1, Len(s))

\* x goes behind every element whose score is at least its own
InsertByScore(s, x) ==
    LET k == Cardinality({i \in 1..Len(s) : s[i]["score"] >= x["score"]})
    IN SubSeq(s, 1, k) \o <<x>> \o SubSeq(s, k + 1, Len(s))

RECURSIVE SortByScore(_)
\* list.sort(key=score, reverse=True): descending, and stable
SortByScore(s) ==
    IF s = <<>> THEN <<>>
    ELSE InsertByScore(SortByScore(SubSeq(s, 1, Len(s) - 1)), s[Len(s)])

\* cost per person * people
total_cost(p) == p["approx_cost_pp"] * people

\* a gate that forgets to multiply by the party size
OverBudget_PerPerson(p) == p["approx_cost_pp"] > remaining_budget

\* a gate that tests the whole budget instead of what is left of it
OverBudget_AgainstTotal(p) == total_cost(p) > total_budget

OverBudget(p) == total_cost(p) > remaining_budget

\* the travel time computed for the ranking, reused
TravelFromCurrent_FromStart(p) == p["travel_from_start"]

\* travel from the current position
TravelFromCurrent(p) ==
    travel_time_min(current_lat, current_lon, p["lat"], p["lon"])

\* a gate that forgets the travel to the candidate
OverTime_NoTravel(travel_min, visit_duration) ==
    total_minutes_used + visit_duration > MAX_MINUTES

OverTime(travel_min, visit_duration) ==
    total_minutes_used + travel_min + visit_duration > MAX_MINUTES

Stop(p, cost, travel_min, visit_duration) ==
    [name |-> p["name"],
     categories |-> Get(p, "categories", <<>>),
     photo_url |-> Get(p, "photo_url", None),
     cost |-> cost,
     travel_time |-> travel_min,
     duration |-> visit_duration,
     lat |-> p["lat"],
     lon |-> p["lon"]]

\* if not selected_places: return []
ReturnEmpty ==
    /\ pc = "entry"
    /\ selected_places = <<>>
    /\ pc' = "returned"
    /\ result' = <<>>
    /\ UNCHANGED <<outside, args, enriched, idx, itinerary, remaining_budget,
                   current_lat, current_lon, total_minutes_used, exception>>

EnterEnrichLoop ==
    /\ pc = "entry"
    /\ selected_places # <<>>
    /\ pc' = "enrich"
    /\ enriched' = <<>>
    /\ idx' = 1
    /\ UNCHANGED <<outside, args, itinerary, remaining_budget, current_lat,
                   current_lon, total_minutes_used, result, exception>>

Raise(e) ==
    /\ pc' = "raised"
    /\ exception' = e
    /\ UNCHANGED <<outside, args, enriched, idx, itinerary, remaining_budget,
                   current_lat, current_lon, total_minutes_used, result>>

\* plat, plon = p["lat"], p["lon"] on a dict without the key
EnrichKeyError ==
    /\ pc = "enrich"
    /\ idx <= Len(selected_places)
    /\ ~({"lat", "lon"} \subseteq DOMAIN selected_places[idx])
    /\ Raise("KeyError")

\* geodesic() rejecting a None coordinate
EnrichGeodesicError ==
    /\ pc = "enrich"
    /\ idx <= Len(selected_places)
    /\ {"lat", "lon"} \subseteq DOMAIN selected_places[idx]
    /\ GeodesicRaises(start_lat, start_lon,
                      selected_places[idx]["lat"], selected_places[idx]["lon"])
    /\ Raise("GeodesicError")

EnrichPlace ==
    /\ pc = "enrich"
    /\ idx <= Len(selected_places)
    /\ {"lat", "lon"} \subseteq DOMAIN selected_places[idx]
    /\ ~GeodesicRaises(start_lat, start_lon,
                       selected_places[idx]["lat"], selected_places[idx]["lon"])
    /\ enriched' = Append(enriched, Enrich(selected_places[idx]))
    /\ idx' = idx + 1
    /\ UNCHANGED <<outside, args, pc, itinerary, remaining_budget, current_lat,
                   current_lon, total_minutes_used, result, exception>>

\* an enrichment that writes into the caller's dicts and sorts the caller's list
SortAndStart_InPlace ==
    /\ pc = "enrich"
    /\ idx > Len(selected_places)
    /\ enriched' = SortByScore(enriched)
    /\ selected_places' = SortByScore(enriched)
    /\ itinerary' = <<>>
    /\ remaining_budget' = total_budget
    /\ current_lat' = start_lat
    /\ current_lon' = start_lon
    /\ total_minutes_used' = 0
    /\ pc' = "scan"
    /\ idx' = 1
    /\ UNCHANGED <<outside, start_lat, start_lon, total_budget, people,
                   geodesic_none, result, exception>>

\* enriched.sort(...) and the initialisation of the greedy loop
SortAndStart ==
    /\ pc = "enrich"
    /\ idx > Len(selected_places)
    /\ enriched' = SortByScore(enriched)
    /\ itinerary' = <<>>
    /\ remaining_budget' = total_budget
    /\ current_lat' = start_lat
    /\ current_lon' = start_lon
    /\ total_minutes_used' = 0
    /\ pc' = "scan"
    /\ idx' = 1
    /\ UNCHANGED <<outside, args, result, exception>>

\* break instead of continue
SkipOverBudget_Break ==
    /\ pc = "scan"
    /\ idx <= Len(enriched)
    /\ OverBudget(enriched[idx])
    /\ pc' = "returned"
    /\ result' = itinerary
    /\ UNCHANGED <<outside, args, enriched, idx, itinerary, remaining_budget,
                   current_lat, current_lon, total_minutes_used, exception>>

\* if total_cost > remaining_budget: continue
SkipOverBudget ==
    /\ pc = "scan"
    /\ idx <= Len(enriched)
    /\ OverBudget(enriched[idx])
    /\ idx' = idx + 1
    /\ UNCHANGED <<outside, args, pc, enriched, itinerary, remaining_budget,
                   current_lat, current_lon, total_minutes_used, result,
                   exception>>

\* if total_minutes_used + travel_min + visit_duration > MAX_MINUTES: continue
SkipOverTime ==
    /\ pc = "scan"
    /\ idx <= Len(enriched)
    /\ ~OverBudget(enriched[idx])
    /\ OverTime(TravelFromCurrent(enriched[idx]),
                estimate_visit_duration(enriched[idx]))
    /\ idx' = idx + 1
    /\ UNCHANGED <<outside, args, pc, enriched, itinerary, remaining_budget,
                   current_lat, current_lon, total_minutes_used, result,
                   exception>>

AcceptStop ==
    /\ pc = "scan"
    /\ idx <= Len(enriched)
    /\ LET p == enriched[idx]
           cost == total_cost(p)
           travel_min == TravelFromCurrent(p)
           visit_duration == estimate_visit_duration(p)
       IN /\ ~OverBudget(p)
          /\ ~OverTime(travel_min, visit_duration)
          /\ itinerary' = Append(itinerary,
                                 Stop(p, cost, travel_min, visit_duration))
          /\ remaining_budget' = remaining_budget - cost
          /\ total_minutes_used' = total_minutes_used + travel_min + visit_duration
          /\ current_lat' = p["lat"]
          /\ current_lon' = p["lon"]
    /\ idx' = idx + 1
    /\ UNCHANGED <<outside, args, pc, enriched, result, exception>>

\* return itinerary
ReturnItinerary ==
    /\ pc = "scan"
    /\ idx > Len(enriched)
    /\ pc' = "returned"
    /\ result' = itinerary
    /\ UNCHANGED <<outside, args, enriched, idx, itinerary, remaining_budget,
                   current_lat, current_lon, total_minutes_used, exception>>

\* ---------------------------------------------------------------------
\* The calls tried
\* ---------------------------------------------------------------------
\* The trip start of the scenarios, (18.52 N, 73.85 E) on the chart
StartLat == 2050
StartLon == 7800

PlaceA ==
    [name |-> "A", categories |-> <<LabelPark>>, lat |-> StartLat + 2,
     lon |-> StartLon, price_tier |-> 2, popularity |-> 90, photo_url |-> None]
PlaceB ==
    [name |-> "B", categories |-> <<LabelRestaurant>>, lat |-> StartLat,
     lon |-> StartLon + 1, price_tier |-> 4, popularity |-> 95,
     photo_url |-> None]
PlaceMall ==
    [name |-> "Mall", categories |-> <<LabelShoppingMall>>, lat |-> StartLat + 40,
     lon |-> StartLon, price_tier |-> 3, popularity |-> 80, photo_url |-> None]
PlaceFun ==
    [name |-> "Fun", categories |-> <<LabelAmusementArcade, LabelAdventureSports>>,
     lat |-> StartLat, lon |-> StartLon + 40, price_tier |-> 1,
     popularity |-> 70, photo_url |-> None]
PlaceCafe1 ==
    [name |-> "Cafe1", categories |-> <<LabelCafe>>, lat |-> StartLat + 3,
     lon |-> StartLon + 4, price_tier |-> 5, popularity |-> 60,
     photo_url |-> None]
PlaceCafe2 ==
    [name |-> "Cafe2", categories |-> <<LabelCafe>>, lat |-> StartLat + 3,
     lon |-> StartLon + 4, price_tier |-> 5, popularity |-> 60,
     photo_url |-> None]
\* only the keys the builder cannot do without
PlaceBare ==
    [name |-> "Bare", lat |-> StartLat, lon |-> StartLon]
\* a record without coordinates
PlaceNoCoord ==
    [name |-> "NoCoord", categories |-> <<LabelMuseum>>, price_tier |-> 1,
     popularity |-> 90]
\* a record whose coordinates and price are None
PlaceNoneCoord ==
    [name |-> "NoneCoord", categories |-> <<LabelTemple>>, lat |-> None,
     lon |-> None, price_tier |-> None, popularity |-> 90, photo_url |-> None]

Places == {PlaceA, PlaceB, PlaceMall, PlaceFun, PlaceCafe1, PlaceCafe2,
           PlaceBare, PlaceNoCoord, PlaceNoneCoord}

\* a geocoded address, or geocode_address's (None, None)
Starts == {<<StartLat, StartLon>>, <<None, None>>}
Budgets == {200, 1000, 2000}
Parties == {0, 1, 2}

Init ==
    /\ selected_places \in SeqsUpTo(Places, MaxSelected)
    /\ \E st \in Starts : start_lat = st[1] /\ start_lon = st[2]
    /\ total_budget \in Budgets
    /\ people \in Parties
    /\ geodesic_none \in {"zero", "raise"}
    /\ pc = "entry"
    /\ enriched = <<>>
    /\ idx = 1
    /\ itinerary = <<>>
    /\ remaining_budget = 0
    /\ current_lat = None
    /\ current_lon = None
    /\ total_minutes_used = 0
    /\ result = <<>>
    /\ exception = "none"
    /\ address = ""
    /\ last_search_results = <<>>
    /\ returned_before = <<>>

Next ==
    \/ ReturnEmpty
    \/ EnterEnrichLoop
    \/ EnrichKeyError
    \/ EnrichGeodesicError
    \/ EnrichPlace
    \/ SortAndStart
    \/ SkipOverBudget
    \/ SkipOverTime
    \/ AcceptStop
    \/ ReturnItinerary

Spec == Init /\ [][Next]_vars

\* ---------------------------------------------------------------------
\* The builder called again with the arguments of the call that returned
\* (the Generate Journey button pressed again on an unchanged page)
\* ---------------------------------------------------------------------
CallAgain ==
    /\ pc = "returned"
    /\ Len(returned_before) < MaxCalls - 1
    /\ returned_before' = Append(returned_before, result)
    /\ pc' = "entry"
    /\ enriched' = <<>>
    /\ idx' = 1
    /\ itinerary' = <<>>
    /\ remaining_budget' = 0
    /\ current_lat' = None
    /\ current_lon' = None
    /\ total_minutes_used' = 0
    /\ result' = <<>>
    /\ UNCHANGED <<args, exception, address, last_search_results>>

NextRepeat ==
    \/ Next
    \/ CallAgain

SpecRepeat == Init /\ [][NextRepeat]_vars

\* ---------------------------------------------------------------------
\* main.py: the page.  Every interaction runs the script once; the session
\* state, the widgets' values and nothing else survive the run.
\* ---------------------------------------------------------------------
\* a photo URL, as fsq_get_photo_url builds it
PhotoUrl == 1

\* fetch_photos_for_top_places(normalized, top_n=8)
TopN == 8

\* Places as the places API returns them
RawGarden ==
    [fsq_place_id |-> "r1", name |-> "Garden",
     categories |-> <<[name |-> LabelRoseGarden]>>,
     location |-> [latitude |-> StartLat + 1, longitude |-> StartLon],
     price |-> 1, popularity |-> 80]
\* no price, no popularity
RawDiner ==
    [fsq_place_id |-> "r2", name |-> "Diner",
     categories |-> <<[name |-> LabelRestaurant]>>,
     location |-> [latitude |-> StartLat, longitude |-> StartLon + 3]]
\* no latitude
RawNowhere ==
    [fsq_place_id |-> "r3", name |-> "Nowhere",
     categories |-> <<[name |-> LabelTemple]>>,
     location |-> [address |-> "x"], price |-> 2, popularity |-> 90]

\* what cached_fsq_search may return
RawResponses == {<<>>, <<RawGarden, RawNowhere, RawDiner>>, <<RawDiner, RawGarden>>}

Addresses == {"", "FC Road"}

\* the record normalized.append builds from p
NormalizedPlace(p) ==
    LET loc == Get(p, "location", <<>>)
        cats == Get(p, "categories", <<>>)
    IN [fsq_place_id |-> Get(p, "fsq_place_id", None),
        name |-> Get(p, "name", "Unknown Place"),
        categories |-> [i \in 1..Len(cats) |-> Get(cats[i], "name", <<>>)],
        lat |-> Get(loc, "latitude", None),
        lon |-> Get(loc, "longitude", None),
        price_tier |-> Get(p, "price", None),
        popularity |-> Get(p, "popularity", 50),
        photo_url |-> None]

RECURSIVE Normalize(_)
\* for p in places_raw: skip the places without a latitude
Normalize(places_raw) ==
    IF places_raw = <<>> THEN <<>>
    ELSE LET p == places_raw[Len(places_raw)]
             before == Normalize(SubSeq(places_raw, 1, Len(places_raw) - 1))
         IN IF Get(Get(p, "location", <<>>), "latitude", None) = None
            THEN before
            ELSE Append(before, NormalizedPlace(p))

\* the first top_n places get what fsq_get_photo_url returned for them
WithPhotos(places, photos) ==
    [i \in 1..Len(places) |->
        IF i <= TopN THEN [places[i] EXCEPT !["photo_url"] = photos[i]]
                     ELSE places[i]]

EditAddress ==
    /\ pc = "ui"
    /\ \E a \in Addresses : a # address /\ address' = a
    /\ UNCHANGED <<args, pc, enriched, idx, itinerary, remaining_budget,
                   current_lat, current_lon, total_minutes_used, result,
                   exception, last_search_results, returned_before>>

\* Search Places with no address: "Enter an address first."
SearchNoAddress ==
    /\ pc = "ui"
    /\ address = ""
    /\ UNCHANGED vars

\* Search Places, geocode_address returns (None, None): "Couldn't find that
\* address."
SearchNotFound ==
    /\ pc = "ui"
    /\ address # ""
    /\ <<None, None>> \in Starts
    /\ UNCHANGED vars

\* Search Places, the address geocoded
SearchPlaces ==
    /\ pc = "ui"
    /\ address # ""
    /\ \E g \in Starts :
           /\ g[1] # None
           /\ \E places_raw \in RawResponses :
                  LET normalized == Normalize(places_raw)
                  IN \E photos \in [1..Len(normalized) -> {None, PhotoUrl}] :
                         last_search_results' = WithPhotos(normalized, photos)
    /\ UNCHANGED <<args, pc, enriched, idx, itinerary, remaining_budget,
                   current_lat, current_lon, total_minutes_used, result,
                   exception, address, returned_before>>

\* the Select button of a card
Select ==
    /\ pc = "ui"
    /\ Len(selected_places) < MaxSelected
    /\ \E i \in 1..Len(last_search_results) :
           selected_places' = Append(selected_places, last_search_results[i])
    /\ UNCHANGED <<start_lat, start_lon, total_budget, people, geodesic_none,
                   pc, enriched, idx, itinerary, remaining_budget, current_lat,
                   current_lon, total_minutes_used, result, exception, outside>>

\* Generate Journey: lat, lon = geocode_address(address), then the call
GenerateJourney ==
    /\ pc = "ui"
    /\ selected_places # <<>>
    /\ \E g \in Starts : start_lat' = g[1] /\ start_lon' = g[2]
    /\ pc' = "entry"
    /\ UNCHANGED <<selected_places, total_budget, people, geodesic_none,
                   enriched, idx, itinerary, remaining_budget, current_lat,
                   current_lon, total_minutes_used, result, exception, outside>>

\* the run of the script ends, with the itinerary (or the exception) shown
EndOfRun ==
    /\ pc \in {"returned", "raised"}
    /\ pc' = "ui"
    /\ enriched' = <<>>
    /\ idx' = 1
    /\ itinerary' = <<>>
    /\ remaining_budget' = 0
    /\ current_lat' = None
    /\ current_lon' = None
    /\ total_minutes_used' = 0
    /\ result' = <<>>
    /\ exception' = "none"
    /\ UNCHANGED <<args, outside>>

\* budget and people as the number inputs allow them
PageBudgets == {200, 2000}
PageParties == {1, 2}

InitUI ==
    /\ selected_places = <<>>
    /\ start_lat = None
    /\ start_lon = None
    /\ total_budget \in PageBudgets
    /\ people \in PageParties
    /\ geodesic_none \in {"zero", "raise"}
    /\ pc = "ui"
    /\ enriched = <<>>
    /\ idx = 1
    /\ itinerary = <<>>
    /\ remaining_budget = 0
    /\ current_lat = None
    /\ current_lon = None
    /\ total_minutes_used = 0
    /\ result = <<>>
    /\ exception = "none"
    /\ address = ""
    /\ last_search_results = <<>>
    /\ returned_before = <<>>

\* The page calls the builder with a non-empty list of records that all have
\* the lat and lon keys, so the builder's empty-list return and its KeyError
\* do not occur here.
NextUI ==
    \/ EditAddress
    \/ SearchNoAddress
    \/ SearchNotFound
    \/ SearchPlaces
    \/ Select
    \/ GenerateJourney
    \/ EnterEnrichLoop
    \/ EnrichGeodesicError
    \/ EnrichPlace
    \/ SortAndStart
    \/ SkipOverBudget
    \/ SkipOverTime
    \/ AcceptStop
    \/ ReturnItinerary
    \/ EndOfRun

SpecUI == InitUI /\ [][NextUI]_vars

\* ---------------------------------------------------------------------
\* estimate_visit_duration alone, on every list of up to MaxLabels labels
\* and on a place without the categories key
\* ---------------------------------------------------------------------
DurationPlaces ==
    {[name |-> "X", categories |-> c] : c \in SeqsUpTo(Labels, MaxLabels)}
        \cup {[name |-> "X"]}

InitDuration ==
    /\ selected_places \in {<<p>> : p \in DurationPlaces}
    /\ start_lat = None
    /\ start_lon = None
    /\ total_budget = 0
    /\ people = 1
    /\ geodesic_none = "zero"
    /\ pc = "estimate"
    /\ enriched = <<>>
    /\ idx = 1
    /\ itinerary = <<>>
    /\ remaining_budget = 0
    /\ current_lat = None
    /\ current_lon = None
    /\ total_minutes_used = 0
    /\ result = 0
    /\ exception = "none"
    /\ address = ""
    /\ last_search_results = <<>>
    /\ returned_before = <<>>

EstimateVisitDuration ==
    /\ pc = "estimate"
    /\ result' = estimate_visit_duration(selected_places[1])
    /\ pc' = "estimated"
    /\ UNCHANGED <<outside, args, enriched, idx, itinerary, remaining_budget,
                   current_lat, current_lon, total_minutes_used, exception>>

NextDuration == EstimateVisitDuration

SpecDuration == InitDuration /\ [][NextDuration]_vars

\* ---------------------------------------------------------------------
\* Properties
\* ---------------------------------------------------------------------
RECURSIVE SumCost(_)
SumCost(stops) ==
    IF stops = <<>> THEN 0
    ELSE SumCost(SubSeq(stops, 1, Len(stops) - 1)) + stops[Len(stops)].cost

RECURSIVE SumTime(_)
SumTime(stops) ==
    IF stops = <<>> THEN 0
    ELSE SumTime(SubSeq(stops, 1, Len(stops) - 1))
         + stops[Len(stops)].travel_time + stops[Len(stops)].duration

\* C1: for a party of at least 1, the budget left is the total budget minus
\* the cost of the stops accepted so far and is never negative during the
\* loop (so each stop cost at most what was left when it was accepted), and
\* the costs of the returned itinerary sum to at most the total budget.
C1_BudgetNeverExceeded ==
    people >= 1 =>
        /\ pc = "scan" =>
               /\ remaining_budget >= 0
               /\ remaining_budget = total_budget - SumCost(itinerary)
        /\ pc = "returned" => SumCost(result) <= total_budget

\* A returned one-stop itinerary, with another candidate that the total
\* budget would have paid for but the budget left did not.
C1_Witness ==
    /\ pc = "returned"
    /\ people >= 1
    /\ start_lat # None
    /\ Len(result) = 1
    /\ \E i \in 1..Len(enriched) :
           /\ enriched[i]["name"] # result[1].name
           /\ total_cost(enriched[i]) <= total_budget
           /\ total_cost(enriched[i]) > remaining_budget

\* C2: during the loop the minutes used are the travel and visit minutes of
\* the stops accepted so far and never exceed 480, and so do those of the
\* returned itinerary.
C2_TimeNeverExceeded ==
    /\ pc = "scan" =>
           /\ total_minutes_used <= 480
           /\ total_minutes_used = SumTime(itinerary)
    /\ pc = "returned" => SumTime(result) <= 480

\* A returned one-stop itinerary, with another candidate that fits the day
\* alone from the start but not behind the accepted stop.
C2_Witness ==
    /\ pc = "returned"
    /\ start_lat # None
    /\ Len(result) = 1
    /\ \E i \in 1..Len(enriched) :
           /\ enriched[i]["name"] # result[1].name
           /\ ~OverBudget(enriched[i])
           /\ enriched[i]["travel_from_start"]
                  + estimate_visit_duration(enriched[i]) <= 480
           /\ OverTime(TravelFromCurrent(enriched[i]),
                       estimate_visit_duration(enriched[i]))

NoCoordinate(p) ==
    \/ ~({"lat", "lon"} \subseteq DOMAIN p)
    \/ p["lat"] = None
    \/ p["lon"] = None

WellFormedCall ==
    /\ start_lat # None
    /\ start_lon # None
    /\ \A i \in 1..Len(selected_places) : ~NoCoordinate(selected_places[i])

\* C3: with a valid start and a geopy that accepts None, a selected place
\* without a determinable coordinate does not make the call fail: the call
\* does not raise, and the returned itinerary holds no such place.
C3_MissingCoordinateExcluded ==
    (/\ geodesic_none = "zero"
     /\ start_lat # None
     /\ \E i \in 1..Len(selected_places) : NoCoordinate(selected_places[i]))
    => /\ pc # "raised"
       /\ pc = "returned" =>
              \A k \in 1..Len(result) :
                  result[k].lat # None /\ result[k].lon # None

\* The candidate fails a gate at the start of the scan, before any stop is
\* accepted.
FailsAlone(e) ==
    \/ e["approx_cost_pp"] * people > total_budget
    \/ e["travel_from_start"] + estimate_visit_duration(e) > 480

\* C4: an empty list of places is answered by [] and never by an exception;
\* a call whose places and start all have coordinates never raises; and when
\* every candidate fails the budget gate or the time gate the call returns [].
C4_NoAnswerIsEmptyList ==
    /\ selected_places = <<>> =>
           /\ pc \in {"entry", "returned"}
           /\ pc = "returned" => result = <<>>
    /\ WellFormedCall => pc # "raised"
    /\ (/\ pc = "returned"
        /\ \A i \in 1..Len(enriched) : FailsAlone(enriched[i]))
       => result = <<>>

\* One place with coordinates whose cost for the party exceeds the total
\* budget: [] is returned.
C4_Witness ==
    /\ pc = "returned"
    /\ WellFormedCall
    /\ Len(selected_places) = 1
    /\ enriched[1]["approx_cost_pp"] * people > total_budget
    /\ result = <<>>

Injections(n) ==
    {f \in [1..n -> 1..n] : \A i, j \in 1..n : i # j => f[i] # f[j]}

\* The candidates are the selected places, each with its travel time from the
\* start and the score computed from it, by score descending, equal scores
\* in input order.
RankedOnce ==
    /\ Len(enriched) = Len(selected_places)
    /\ \E f \in Injections(Len(enriched)) :
           /\ \A i \in 1..Len(enriched) :
                  LET p == selected_places[f[i]]
                      t == travel_time_min(start_lat, start_lon, p["lat"], p["lon"])
                  IN /\ enriched[i]["name"] = p["name"]
                     /\ enriched[i]["travel_from_start"] = t
                     /\ enriched[i]["score"] =
                            compute_score(p, budget_per_person, t).score
           /\ \A i, j \in 1..Len(enriched) :
                  i < j => \/ enriched[i]["score"] > enriched[j]["score"]
                           \/ /\ enriched[i]["score"] = enriched[j]["score"]
                              /\ f[i] < f[j]

\* The stops are candidates taken in the order of the candidates.
IsSubsequence(stops, cands) ==
    \E g \in [1..Len(stops) -> 1..Len(cands)] :
        /\ \A k \in 1..Len(stops) :
               /\ stops[k].name = cands[g[k]]["name"]
               /\ stops[k].lat = cands[g[k]]["lat"]
               /\ stops[k].lon = cands[g[k]]["lon"]
        /\ \A k, l \in 1..Len(stops) : k < l => g[k] < g[l]

\* Two candidates, each within the budget and the day alone from the start,
\* that do not fit the day one after the other.
TwoFeasibleButNotBoth ==
    /\ Len(enriched) = 2
    /\ \A i \in 1..2 : ~FailsAlone(enriched[i])
    /\ enriched[1]["travel_from_start"] + estimate_visit_duration(enriched[1])
         + travel_time_min(enriched[1]["lat"], enriched[1]["lon"],
                           enriched[2]["lat"], enriched[2]["lon"])
         + estimate_visit_duration(enriched[2]) > 480

\* C5: throughout the scan and at the return the candidates are in the one
\* ranking made from the start-relative scores (descending, stable), the
\* stops are a subsequence of it, and of two individually feasible candidates
\* that do not both fit the day only the first-ranked one is returned.
C5_RankedOnceScannedInOrder ==
    /\ pc = "scan" =>
           /\ RankedOnce
           /\ IsSubsequence(itinerary, SubSeq(enriched, 1, idx - 1))
    /\ (pc = "returned" /\ selected_places # <<>>) =>
           /\ RankedOnce
           /\ IsSubsequence(result, enriched)
           /\ TwoFeasibleButNotBoth =>
                  /\ Len(result) = 1
                  /\ result[1].name = enriched[1]["name"]

\* The two-candidate case, returned, with the second input ranked first.
C5_Witness ==
    /\ pc = "returned"
    /\ WellFormedCall
    /\ TwoFeasibleButNotBoth
    /\ enriched[1]["name"] = selected_places[2]["name"]
    /\ enriched[1]["name"] # selected_places[1]["name"]
    /\ Len(result) = 1

\* Both gates, as the loop states them for candidate p at its turn.
PassesBothGates(p) ==
    /\ p["approx_cost_pp"] * people <= remaining_budget
    /\ total_minutes_used
         + travel_time_min(current_lat, current_lon, p["lat"], p["lon"])
         + estimate_visit_duration(p) <= 480

\* C6: every step of the scan moves on to the next candidate and accepts the
\* candidate at hand exactly when it passes both gates; the scan ends only
\* behind the last candidate.
C6_ScanNeverStopsEarly ==
    [][pc = "scan" =>
          IF idx <= Len(enriched)
          THEN /\ pc' = "scan"
               /\ idx' = idx + 1
               /\ enriched' = enriched
               /\ IF PassesBothGates(enriched[idx])
                  THEN /\ Len(itinerary') = Len(itinerary) + 1
                       /\ SubSeq(itinerary', 1, Len(itinerary)) = itinerary
                       /\ itinerary'[Len(itinerary')].name = enriched[idx]["name"]
                  ELSE itinerary' = itinerary
          ELSE /\ pc' = "returned"
               /\ result' = itinerary]_vars

\* A returned itinerary whose only stop is the second-ranked candidate: the
\* first was skipped and the scan went on.
C6_Witness ==
    /\ pc = "returned"
    /\ WellFormedCall
    /\ Len(enriched) = 2
    /\ Len(result) = 1
    /\ result[1].name = enriched[2]["name"]
    /\ result[1].name # enriched[1]["name"]

\* C7: each stop's travel_time is the travel time from the stop before it
\* (from the start for the first stop), and a step that skips a candidate
\* leaves the position, the budget left and the minutes used as they were.
C7_TravelFromPreviousStop ==
    /\ [](pc = "scan" =>
            \A k \in 1..Len(itinerary) :
                itinerary[k].travel_time =
                    IF k = 1
                    THEN travel_time_min(start_lat, start_lon,
                                         itinerary[k].lat, itinerary[k].lon)
                    ELSE travel_time_min(itinerary[k - 1].lat, itinerary[k - 1].lon,
                                         itinerary[k].lat, itinerary[k].lon))
    /\ [][(pc = "scan" /\ pc' = "scan" /\ itinerary' = itinerary) =>
              /\ current_lat' = current_lat
              /\ current_lon' = current_lon
              /\ remaining_budget' = remaining_budget
              /\ total_minutes_used' = total_minutes_used]_vars

\* Two stops, the second of which is not as far from the first as it is from
\* the start (or farther).
C7_Witness ==
    /\ pc = "scan"
    /\ WellFormedCall
    /\ Len(itinerary) = 2
    /\ itinerary[2].travel_time #
           travel_time_min(start_lat, start_lon, itinerary[2].lat, itinerary[2].lon)

\* C8: the party size is coerced to at least 1: each stop costs the
\* per-person cost of its place times max(1, people).
C8_PartySizeCoerced ==
    pc \in {"scan", "returned"} =>
        \A k \in 1..Len(itinerary) :
            \E i \in 1..Len(enriched) :
                /\ enriched[i]["name"] = itinerary[k].name
                /\ itinerary[k].cost = enriched[i]["approx_cost_pp"] * Max(1, people)

\* Some label of the place has the keyword in it, whatever its case.
HasKeyword(place, kw) ==
    \E c \in {Get(place, "categories", <<>>)[i] :
                  i \in 1..Len(Get(place, "categories", <<>>))} :
        Contains(Lower(c), kw)

PriorityDuration(place) ==
    IF HasKeyword(place, Kw_park) \/ HasKeyword(place, Kw_garden) THEN 60
    ELSE IF HasKeyword(place, Kw_cafe) THEN 45
    ELSE IF HasKeyword(place, Kw_restaurant) THEN 75
    ELSE IF HasKeyword(place, Kw_mall) THEN 120
    ELSE IF HasKeyword(place, Kw_museum) THEN 60
    ELSE IF HasKeyword(place, Kw_adventure) \/ HasKeyword(place, Kw_amusement)
         THEN 90
    ELSE 45

Reverse(s) == [i \in 1..Len(s) |-> s[Len(s) + 1 - i]]

\* C9: the estimate is decided by the set of keywords that occur in the
\* labels, by the priority park/garden 60, cafe 45, restaurant 75, mall 120,
\* museum 60, adventure/amusement 90, else 45; the labels in the opposite
\* order give the same estimate; ["Park", "Cafe"] and ["Cafe", "Park"] give
\* 60, and an empty or missing list gives 45.
C9_DurationByPriority ==
    pc = "estimated" =>
        LET place == selected_places[1]
            cats == Get(place, "categories", <<>>)
        IN /\ result = PriorityDuration(place)
           /\ result = estimate_visit_duration([name |-> "X",
                                                categories |-> Reverse(cats)])
           /\ cats \in {<<LabelPark, LabelCafe>>, <<LabelCafe, LabelPark>>}
                  => result = 60
           /\ cats = <<>> => result = 45

\* The estimate made for ["Cafe", "Park"].
C9_Witness ==
    /\ pc = "estimated"
    /\ "categories" \in DOMAIN selected_places[1]
    /\ selected_places[1]["categories"] = <<LabelCafe, LabelPark>>
    /\ result = 60

\* C10: the cost factor never lowers a score: a candidate's score is at least
\* 0.5 * popularity - 0.2 * travel / 30, and exactly that when its cost
\* exceeds the per-person budget.  With budget 2000, party 2, A (tier 2,
\* popularity 0.9, 2 km) and B (tier 4, popularity 0.95, 1 km), A scores
\* 0.59, B scores 0.455, and A is ranked before B.
C10_CostFactorFloored ==
    pc \in {"enrich", "scan", "returned"} =>
        /\ \A i \in 1..Len(enriched) :
               LET e == enriched[i]
                   bpp == budget_per_person
                   base == 3 * CostDen(bpp) * Get(e, "popularity", 60)
                             - 4 * CostDen(bpp) * e["travel_from_start"]
               IN /\ e["score"] >= base
                  /\ e["approx_cost_pp"] * bpp.den > bpp.num => e["score"] = base
        /\ (/\ pc \in {"scan", "returned"}
            /\ total_budget = 2000
            /\ people = 2
            /\ start_lat = StartLat
            /\ start_lon = StartLon
            /\ selected_places \in {<<PlaceA, PlaceB>>, <<PlaceB, PlaceA>>})
           => /\ enriched[1]["name"] = "A"
              /\ enriched[2]["name"] = "B"
              /\ enriched[1]["score"] * 1000 = 590 * 600 * 2000
              /\ enriched[2]["score"] * 1000 = 455 * 600 * 2000
              /\ enriched[1]["score"] > enriched[2]["score"]

\* The scenario with B selected first, returned with A ranked first.
C10_Witness ==
    /\ pc = "returned"
    /\ total_budget = 2000
    /\ people = 2
    /\ start_lat = StartLat
    /\ start_lon = StartLon
    /\ selected_places = <<PlaceB, PlaceA>>
    /\ enriched[1]["name"] = "A"
    /\ enriched[2]["approx_cost_pp"] * 2 > total_budget

\* C11: the per-person cost of a candidate is 200, 400, 800, 1200 for price
\* tiers 1, 2, 3, 4 and 400 when the price_tier key is absent, None, or any
\* other value.
C11_ApproxCostTable ==
    \A i \in 1..Len(enriched) :
        LET e == enriched[i]
        IN e["approx_cost_pp"] =
               IF "price_tier" \notin DOMAIN e THEN 400
               ELSE IF e["price_tier"] = 1 THEN 200
               ELSE IF e["price_tier"] = 2 THEN 400
               ELSE IF e["price_tier"] = 3 THEN 800
               ELSE IF e["price_tier"] = 4 THEN 1200
               ELSE 400

\* Candidates with the key absent and with a None price, both costed 400.
C11_Witness ==
    /\ pc = "returned"
    /\ Len(enriched) = 2
    /\ "price_tier" \notin DOMAIN enriched[1]
    /\ "price_tier" \in DOMAIN enriched[2]
    /\ enriched[2]["price_tier"] = None
    /\ enriched[1]["approx_cost_pp"] = 400
    /\ enriched[2]["approx_cost_pp"] = 400

\* C13: no step of a call changes the caller's list of places (its length,
\* its order, the keys and values of its records), and a call made again with
\* the same arguments returns the itinerary the call before it returned.
C13_InputsUnchanged ==
    /\ [][selected_places' = selected_places]_vars
    /\ [](pc = "returned" /\ returned_before # <<>>
             => result = returned_before[Len(returned_before)])

\* The second call returned, with two stops, from a list that the ranking
\* reordered.
C13_Witness ==
    /\ pc = "returned"
    /\ returned_before # <<>>
    /\ Len(result) = 2
    /\ Len(selected_places) = 2
    /\ enriched[1]["name"] = selected_places[2]["name"]
    /\ enriched[1]["name"] # selected_places[1]["name"]
    /\ "score" \notin DOMAIN selected_places[1]

\* C12: whenever the page calls the builder, the start latitude and longitude
\* it passes are geocoded values, never None.
C12_StartAlwaysGeocoded ==
    pc = "entry" => (start_lat # None /\ start_lon # None)

====
